---- MODULE Spec2Model ----
(***************************************************************************)
(* Model of the nfcsdk lifecycle and event-loop controller (type SDK):     *)
(* init, SelectReader, Run, dispose, handleCard and Disposed, together     *)
(* with the parts of the package the controller calls into (the pcsc       *)
(* resource-manager binding, the constructor that creates the cancellable  *)
(* context and schedules the cleanup goroutine).                           *)
(*                                                                         *)
(* Every action is one step of one goroutine.  Sections of code that run   *)
(* under s.mu are single steps, except dispose(), whose locked section     *)
(* makes two native calls and is therefore split; the other goroutines     *)
(* see the lock held in between (variable mu).                             *)
(***************************************************************************)
EXTENDS Integers, Sequences, FiniteSets, TLC

\* ------------------------------------------------------------------ bounds
\* Largest number of readers ListReaders may report.
MaxReaders == 2

\* ------------------------------------------------------------------ values
ReaderNames == <<"R0", "R1", "R2", "R3">>

\* An error value is the sequence of the errors joined in it; nil is empty.
Nil == <<>>
ErrInvalid == <<"pcsc: invalid context">>
ErrCancelled == <<"pcsc: cancelled">>
ErrEstablish == <<"pcsc: establish failed">>
ErrList == <<"pcsc: list readers failed">>
ErrConnect == <<"pcsc: connect failed">>
ErrDisconnect == <<"pcsc: disconnect failed">>
ErrSelect == <<"selector failed">>
ErrNoReadersPresent == <<"nfc: no readers present">>
ErrNoReadersListed == <<"nfc: no readers returned by ListReaders">>
ErrNoReadersEnabled == <<"nfc: no readers enabled">>

\* No validity check stands before the next native call.
NotChecked == <<"not checked">>

\* The errors that wrap the package's sentinel Error (fmt.Errorf("%w: ...", Error)).
WrapsError == {ErrNoReadersPresent[1], ErrNoReadersListed[1], ErrNoReadersEnabled[1]}

\* errors.Is(e, Error): some error joined in e wraps the sentinel.
IsSDKError(e) == \E k \in 1..Len(e) : e[k] \in WrapsError

\* A mutant of Join that keeps only the last non-nil error.
JoinLastOnly(a, b) == IF b # Nil THEN b ELSE a

\* errors.Join: the non-nil errors, in order; nil when all are nil.
Join(a, b) == a \o b

\* Reader state bit masks, as the sets of their bits.
ScardStateUnaware == {}
ScardStatePresent == {"present"}
ScardStateEmpty == {"empty"}
ScardStateChanged == {"changed"}

\* The dispose() callers: the cleanup goroutine and a direct caller.
Cleanup == "cleanup"
DisposeCallers == {Cleanup, "direct"}

\* The reader-selection callbacks the application may register.
\*   usePair   returns the first two readers (the only one, if alone), marked
\*   empty     returns an empty subset
\*   fail      returns an error
Selectors == {"usePair", "empty", "fail"}
NoSelector == "nil"

VARIABLES
    inited,        \* init() has been called
    initErr,       \* what init() returned
    hctx,          \* the resource-manager session: "nil", "valid", "invalid", "released"
    readers,       \* s.readers
    readerSelect,  \* s.readerSelect
    disposed,      \* s.disposed
    mu,            \* s.mu: the dispose() caller holding the write lock, if any
    ctxDone,       \* s.ctx is cancelled
    cause,         \* context.Cause(s.ctx)
    stopArgs,      \* the errors s.stop was called with, in order
    wg,            \* s.wg counter
    runPc,         \* where Run() is
    err,           \* Run's named result err
    states,        \* Run's local states
    idx,           \* Run's loop variable i (1-based)
    dpc,           \* where each dispose() caller is
    card,          \* which readers hold a card
    cancelPending, \* a Cancel hit the pending GetStatusChange
    selWarned,     \* the last SelectReader call logged the warning
    firstSelect,   \* the first callback a SelectReader call passed
    appliedSelect, \* the callback Run applied ("none" before the selection step)
    warned,        \* the dispose() call logged the warning
    fatal,         \* the fatal errors Run has recorded, in order
    sawDone,       \* Run left the loop through <-s.ctx.Done()
    waitIssued,    \* a GetStatusChange call has been issued
    cancelCalls,   \* hctx.Cancel calls made
    releaseCalls,  \* hctx.Release calls made
    connected,     \* handleCard holds a connected card
    lateCall,      \* the dispose() call began after another had completed
    tornBy,        \* the dispose() caller set the flag and ran the teardown
    lastCheck,     \* what Run's last IsValid in the loop returned, until the call it guards
    calls,         \* the Connect and Disconnect calls of the current pass over the states
    dlog           \* the teardown steps each dispose() call has made, with their results

vars == <<inited, initErr, hctx, readers, readerSelect, disposed, mu, ctxDone, cause,
          stopArgs, wg, runPc, err, states, idx, dpc, card, cancelPending,
          selWarned, firstSelect, appliedSelect, warned, fatal, sawDone, waitIssued, cancelCalls,
          releaseCalls, connected, lateCall, tornBy, lastCheck,
          calls, dlog>>

sdkVars == <<inited, initErr, readers, readerSelect>>
selVars == <<selWarned, firstSelect>>
ctxVars == <<ctxDone, cause, stopArgs>>
runVars == <<runPc, err, states, idx, fatal, sawDone, waitIssued, appliedSelect, connected,
             lastCheck, calls>>
dispVars == <<disposed, mu, dpc, cancelCalls, releaseCalls, lateCall, tornBy, wg, dlog>>
envVars == <<card>>

\* ------------------------------------------------------- resource manager
\* session.isValid(): nil on a valid session, an error otherwise.
IsValid(h) == IF h = "valid" THEN Nil ELSE ErrInvalid

\* session.cancel(): fails on a session that is not valid.
CancelResult(h) == IF h = "valid" THEN Nil ELSE ErrInvalid

\* session.release(): fails on a session that is not valid.
ReleaseResult(h) == IF h = "valid" THEN Nil ELSE ErrInvalid

\* The state the resource manager sees in a reader.
Actual(r) == IF card[r] THEN ScardStatePresent ELSE ScardStateEmpty

\* A tracked reader whose state differs from the caller's CurrentState.
Differs(st) == (st.CurrentState \ ScardStateChanged) # Actual(st.Reader)

\* What waitForChange writes to an entry: the state, and the changed bit.
Report(st) ==
    [st EXCEPT !.EventState =
        Actual(st.Reader) \cup (IF Differs(st) THEN ScardStateChanged ELSE {})]

\* --------------------------------------------------------------- context
\* s.stop(e) / cancelling the parent: the first cancellation sets the cause.
Cancelled(e) ==
    /\ ctxDone' = TRUE
    /\ cause' = IF ctxDone THEN cause ELSE e

Init ==
    /\ inited = FALSE
    /\ initErr = Nil
    /\ hctx = "nil"
    /\ readers = <<>>
    /\ readerSelect = NoSelector
    /\ disposed = FALSE
    /\ mu = {}
    /\ ctxDone = FALSE
    /\ cause = Nil
    /\ stopArgs = <<>>
    /\ wg = 1
    /\ runPc = "idle"
    /\ err = Nil
    /\ states = <<>>
    /\ idx = 0
    /\ dpc = [c \in DisposeCallers |-> "idle"]
    /\ card = [r \in {ReaderNames[k] : k \in 1..Len(ReaderNames)} |-> FALSE]
    /\ cancelPending = FALSE
    /\ selWarned = FALSE
    /\ firstSelect = NoSelector
    /\ appliedSelect = "none"
    /\ warned = [c \in DisposeCallers |-> FALSE]
    /\ fatal = <<>>
    /\ sawDone = FALSE
    /\ waitIssued = FALSE
    /\ cancelCalls = 0
    /\ releaseCalls = 0
    /\ connected = FALSE
    /\ lateCall = [c \in DisposeCallers |-> FALSE]
    /\ tornBy = [c \in DisposeCallers |-> FALSE]
    /\ lastCheck = NotChecked
    /\ calls = <<>>
    /\ dlog = [c \in DisposeCallers |-> <<>>]

\* ------------------------------------------------------------------ init
\* The inventory init() builds from n reader names: ids from 1, Use unset.
Inventory(n) == [k \in 1..n |-> [id |-> k, name |-> ReaderNames[k], Use |-> FALSE]]

\* init(): establish the session, list the readers, fill the inventory.
\* established: SCardEstablishContext succeeded; listed: ListReaders
\* succeeded; n: the number of names it returned.
init ==
    /\ ~inited
    /\ mu = {}
    /\ \E established \in BOOLEAN, listed \in BOOLEAN, n \in 0..MaxReaders :
        /\ inited' = TRUE
        /\ IF ~established
           THEN /\ initErr' = ErrEstablish
                /\ UNCHANGED <<hctx, readers>>
           ELSE /\ hctx' = "valid"
                /\ IF ~listed
                   THEN initErr' = ErrList /\ UNCHANGED readers
                   ELSE IF n = 0
                        THEN initErr' = ErrNoReadersListed /\ UNCHANGED readers
                        ELSE initErr' = Nil /\ readers' = readers \o Inventory(n)
    /\ UNCHANGED <<readerSelect, ctxVars, runVars, dispVars, envVars, cancelPending,
                   selVars, warned>>

\* ---------------------------------------------------------- SelectReader
\* A mutant of SelectorAttached: the check of line 147 left out.
SelectorAttachedUnchecked == FALSE

\* Line 147: a callback is attached already.
SelectorAttached == readerSelect # NoSelector

\* SelectReader(fn): the callback is attached once; later calls warn.
SelectReader(fn) ==
    /\ mu = {}
    /\ firstSelect' = IF firstSelect = NoSelector THEN fn ELSE firstSelect
    /\ IF SelectorAttached
       THEN selWarned' = TRUE /\ UNCHANGED readerSelect
       ELSE selWarned' = FALSE /\ readerSelect' = fn
    /\ UNCHANGED <<inited, initErr, hctx, readers, ctxVars, runVars, dispVars, envVars,
                   cancelPending, warned>>

\* ------------------------------------------------------------ Run, set-up
\* What a registered callback returns for the inventory rs: readers and error.
ApplySelector(fn, rs) ==
    CASE fn = "usePair" ->
            [readers |-> [k \in 1..(IF Len(rs) < 2 THEN Len(rs) ELSE 2) |->
                             [rs[k] EXCEPT !.Use = TRUE]],
             err |-> Nil]
      [] fn = "empty" -> [readers |-> <<>>, err |-> Nil]
      [] fn = "fail" -> [readers |-> <<>>, err |-> ErrSelect]

\* The entries Run builds: one per reader with Use set, in the unaware state.
RECURSIVE BuildStates(_)
BuildStates(rs) ==
    IF rs = <<>> THEN <<>>
    ELSE (IF rs[1].Use
          THEN <<[Reader |-> rs[1].name, CurrentState |-> ScardStateUnaware,
                  EventState |-> ScardStateUnaware]>>
          ELSE <<>>) \o BuildStates(Tail(rs))

\* A mutant of InventoryError: the check of line 49 left out.
InventoryErrorUnchecked(e, rs) == e

\* Lines 49-51: an empty inventory adds "no readers present" to the error.
InventoryError(e, rs) == IF Len(rs) = 0 THEN Join(e, ErrNoReadersPresent) ELSE e

\* A mutant of AfterPreCheck: Run goes on to the selection whatever the error.
AfterPreCheckNoFailFast(e) == "select"

\* Line 53: with an error Run fails fast, otherwise it selects the readers.
AfterPreCheck(e) == IF e # Nil THEN "preFail" ELSE "select"

\* Run() is called on an SDK whose session init() has established; lines
\* 44-52: under the read lock, validate the session and check the inventory.
RunPreCheck ==
    /\ runPc = "idle"
    /\ inited
    /\ hctx # "nil"
    /\ mu = {}
    /\ LET e1 == IsValid(hctx)
           e2 == InventoryError(e1, readers)
       IN /\ err' = e2
          /\ fatal' = fatal \o (IF e1 # Nil THEN <<e1>> ELSE <<>>)
                            \o (IF Len(readers) = 0 THEN <<ErrNoReadersPresent>> ELSE <<>>)
          /\ runPc' = AfterPreCheck(e2)
    /\ UNCHANGED <<calls, lastCheck, sdkVars, hctx, ctxVars, states, idx, sawDone, waitIssued, appliedSelect,
                   connected, dispVars, envVars, cancelPending, selVars, warned>>

\* Lines 53-54, 68-69: s.stop(err) on a failed set-up step, then on to wg.Wait.
RunStop ==
    /\ runPc \in {"preFail", "selectFail"}
    /\ Cancelled(err)
    /\ stopArgs' = Append(stopArgs, err)
    /\ runPc' = "wgWait"
    /\ UNCHANGED <<calls, lastCheck, sdkVars, hctx, err, states, idx, fatal, sawDone, waitIssued,
                   appliedSelect, connected, dispVars, envVars, cancelPending, selVars, warned>>

\* A mutant of AfterSelect: Run goes on to build the states whatever the error.
AfterSelectUnchecked(e) == "build"

\* Line 68: with an error from the callback Run fails fast.
AfterSelect(e) == IF e # Nil THEN "selectFail" ELSE "build"

\* A mutant of DefaultSelection: every reader of the inventory is enabled.
DefaultSelectionAll(rs) == [k \in 1..Len(rs) |-> [rs[k] EXCEPT !.Use = TRUE]]

\* Line 65, the default policy: s.readers[0].Use = true.
DefaultSelection(rs) == [rs EXCEPT ![1].Use = TRUE]

\* Lines 60-67: under the write lock, apply the callback or the default.
RunSelect ==
    /\ runPc = "select"
    /\ mu = {}
    /\ IF readerSelect # NoSelector
       THEN LET r == ApplySelector(readerSelect, readers)
            IN /\ readers' = r.readers
               /\ err' = r.err
               /\ fatal' = fatal \o (IF r.err # Nil THEN <<r.err>> ELSE <<>>)
               /\ runPc' = AfterSelect(r.err)
       ELSE /\ readers' = DefaultSelection(readers)
            /\ runPc' = "build"
            /\ UNCHANGED <<err, fatal>>
    /\ appliedSelect' = readerSelect
    /\ UNCHANGED <<calls, lastCheck, inited, initErr, readerSelect, hctx, ctxVars, states, idx, sawDone,
                   waitIssued, connected, dispVars, envVars, cancelPending, selVars, warned>>

\* A mutant of NoneTracked: the check of line 88 left out.
NoneTrackedUnchecked(sts) == FALSE

\* Line 88: no reader is tracked.
NoneTracked(sts) == Len(sts) = 0

\* Lines 74-93: snapshot the readers, build the states; with none enabled,
\* set the error and call s.stop(err).
RunBuildStates ==
    /\ runPc = "build"
    /\ mu = {}
    /\ LET sts == BuildStates(readers)
       IN /\ states' = sts
          /\ IF NoneTracked(sts)
             THEN /\ err' = ErrNoReadersEnabled
                  /\ fatal' = Append(fatal, ErrNoReadersEnabled)
                  /\ Cancelled(ErrNoReadersEnabled)
                  /\ stopArgs' = Append(stopArgs, ErrNoReadersEnabled)
                  /\ runPc' = "wgWait"
             ELSE /\ runPc' = "loopTop"
                  /\ UNCHANGED <<err, fatal, ctxVars>>
    /\ UNCHANGED <<calls, lastCheck, sdkVars, hctx, idx, sawDone, waitIssued, appliedSelect, connected,
                   dispVars,
                   envVars, cancelPending, selVars, warned>>

\* A mutant of WgWait: Run returns without waiting for the cleanup.
WgWaitSkipped == TRUE

\* s.wg.Wait() returns: the counter is zero.
WgWait == wg = 0

\* Lines 55-56, 70-71, 91-92, 132-135: s.wg.Wait(), then return err.
RunWgWait ==
    /\ runPc = "wgWait"
    /\ WgWait
    /\ runPc' = "returned"
    /\ UNCHANGED <<calls, lastCheck, sdkVars, hctx, ctxVars, err, states, idx, fatal, sawDone, waitIssued,
                   appliedSelect, connected, dispVars, envVars, cancelPending, selVars, warned>>

\* ------------------------------------------------------------ Run, the loop
\* Leaving the loop with a fatal error e: s.error(err); break runner.
BreakRunner(e) ==
    /\ err' = e
    /\ fatal' = Append(fatal, e)
    /\ runPc' = "wgWait"

\* A mutant of CheckFailed: the result of the validity check is ignored.
CheckFailedIgnored(e) == FALSE

\* Lines 101, 116: if err != nil, after err = s.hctx.IsValid().
CheckFailed(e) == e # Nil

\* Lines 96-104: the cancelled context ends the loop; otherwise the session
\* is validated before the wait.
RunLoopTop ==
    /\ runPc = "loopTop"
    /\ calls' = <<>>
    /\ IF ctxDone
       THEN /\ sawDone' = TRUE
            /\ runPc' = "wgWait"
            /\ UNCHANGED <<err, fatal, lastCheck>>
       ELSE /\ lastCheck' = IsValid(hctx)
            /\ IF CheckFailed(IsValid(hctx))
               THEN BreakRunner(IsValid(hctx))
               ELSE /\ err' = IsValid(hctx)
                    /\ runPc' = "callWait"
                    /\ UNCHANGED fatal
            /\ UNCHANGED sawDone
    /\ UNCHANGED <<sdkVars, hctx, ctxVars, states, idx, waitIssued, appliedSelect,
                   connected, dispVars, envVars, cancelPending, selVars, warned>>

\* Line 105, the call: GetStatusChange(states, -1) is issued.  On a session
\* that is not valid it fails at once (lines 106-108); otherwise it blocks.
RunGetStatusChange ==
    /\ runPc = "callWait"
    /\ waitIssued' = TRUE
    /\ lastCheck' = NotChecked
    /\ cancelPending' = FALSE
    /\ IF hctx # "valid"
       THEN BreakRunner(ErrInvalid)
       ELSE /\ runPc' = "waiting"
            /\ UNCHANGED <<err, fatal>>
    /\ UNCHANGED <<calls, sdkVars, hctx, ctxVars, states, idx, sawDone, appliedSelect, connected,
                   dispVars, envVars, selVars, warned>>

\* Line 105, the return with a change: some tracked reader differs from its
\* CurrentState; every entry gets its EventState.
WaitReturnChange ==
    /\ runPc = "waiting"
    /\ hctx = "valid"
    /\ ~cancelPending
    /\ \E k \in 1..Len(states) : Differs(states[k])
    /\ states' = [k \in 1..Len(states) |-> Report(states[k])]
    /\ err' = Nil
    /\ idx' = 1
    /\ runPc' = "iter"
    /\ UNCHANGED <<calls, lastCheck, sdkVars, hctx, ctxVars, fatal, sawDone, waitIssued, appliedSelect,
                   connected, dispVars, envVars, cancelPending, selVars, warned>>

\* Lines 105-108, the return with an error: the pending call was cancelled,
\* or its session is no longer valid.
WaitReturnError ==
    /\ runPc = "waiting"
    /\ \/ cancelPending /\ BreakRunner(ErrCancelled)
       \/ hctx # "valid" /\ BreakRunner(ErrInvalid)
    /\ cancelPending' = FALSE
    /\ UNCHANGED <<calls, lastCheck, sdkVars, hctx, ctxVars, states, idx, sawDone, waitIssued, appliedSelect,
                   connected, dispVars, envVars, selVars, warned>>

\* A mutant of Acknowledge: the entry is left as it is.
AcknowledgeNothing(st) == st

\* Line 112: states[i].CurrentState = states[i].EventState.
Acknowledge(st) == [st EXCEPT !.CurrentState = st.EventState]

\* A mutant of CardPresent: no reader is taken to hold a card.
CardPresentNever(st) == FALSE

\* Line 113: states[i].EventState&pcsc.ScardStatePresent != 0.
CardPresent(st) == st.EventState \cap ScardStatePresent # {}

\* Lines 111-126, up to the handler: the next entry; its CurrentState takes
\* the EventState; with a card present the session is validated again
\* before the card is handled.
RunIter ==
    /\ runPc = "iter"
    /\ IF idx > Len(states)
       THEN /\ runPc' = "loopTop"
            /\ UNCHANGED <<states, idx, err, fatal, lastCheck, calls>>
       ELSE /\ states' = [states EXCEPT ![idx] = Acknowledge(states[idx])]
            /\ IF CardPresent(states[idx])
               THEN /\ UNCHANGED idx
                    /\ lastCheck' = IsValid(hctx)
                    /\ IF CheckFailed(IsValid(hctx))
                       THEN BreakRunner(IsValid(hctx)) /\ calls' = <<>>
                       ELSE /\ err' = IsValid(hctx)
                            /\ runPc' = "connect"
                            /\ UNCHANGED <<fatal, calls>>
               ELSE /\ runPc' = "iter"
                    /\ idx' = idx + 1
                    /\ UNCHANGED <<err, fatal, lastCheck, calls>>
    /\ UNCHANGED <<sdkVars, hctx, ctxVars, sawDone, waitIssued, appliedSelect,
                   connected, dispVars, envVars, cancelPending, selVars, warned>>

\* A mutant of AfterConnect: a failed Connect ends the loop.
AfterConnectFatal(e) == IF e # Nil THEN "wgWait" ELSE "disconnect"

\* Lines 210-213: a failed Connect is logged and handleCard returns to the
\* loop; otherwise the card is disconnected.
AfterConnect(e) == IF e # Nil THEN "iter" ELSE "disconnect"

\* handleCard, lines 209-213: connect.  ok: the resource manager connected
\* the card; on a session that is not valid the call fails.
handleCardConnect ==
    /\ runPc = "connect"
    /\ lastCheck' = NotChecked
    /\ \E ok \in BOOLEAN :
        LET e == IF ok /\ hctx = "valid" THEN Nil ELSE ErrConnect
        IN /\ calls' = Append(calls, [reader |-> states[idx].Reader, op |-> "connect",
                                      err |-> e])
           /\ connected' = (e = Nil)
           /\ runPc' = AfterConnect(e)
           /\ idx' = IF e # Nil THEN idx + 1 ELSE idx
    /\ UNCHANGED <<sdkVars, hctx, ctxVars, err, states, fatal, sawDone, waitIssued,
                   appliedSelect, dispVars, envVars, cancelPending, selVars, warned>>

\* handleCard, lines 216-221: disconnect with reset; a failure is logged and
\* handleCard returns to the loop either way.  ok: the card was disconnected.
handleCardDisconnect ==
    /\ runPc = "disconnect"
    /\ \E ok \in BOOLEAN :
        LET e == IF ok /\ hctx = "valid" THEN Nil ELSE ErrDisconnect
        IN calls' = Append(calls, [reader |-> states[idx].Reader, op |-> "disconnect",
                                   err |-> e])
    /\ connected' = FALSE
    /\ runPc' = "iter"
    /\ idx' = idx + 1
    /\ UNCHANGED <<lastCheck, sdkVars, hctx, ctxVars, err, states, fatal, sawDone, waitIssued,
                   appliedSelect, dispVars, envVars, cancelPending, selVars, warned>>

\* --------------------------------------------------------------- dispose
\* A mutant of Disposed: the flag is not read.
DisposedNotRead == FALSE

\* Disposed(): the flag, read under the read lock.
Disposed == disposed

\* Another dispose() call has already returned.
SomeDisposeReturned(c) == \E d \in DisposeCallers \ {c} : dpc[d] \in {"done", "exited"}

\* dispose(), lines 186-189: an SDK already disposed only logs a warning.
\* The cleanup goroutine makes its call once the context is cancelled.
DisposeCheck(c) ==
    /\ dpc[c] = "idle"
    /\ inited
    /\ c = Cleanup => ctxDone
    /\ mu = {}
    /\ lateCall' = [lateCall EXCEPT ![c] = SomeDisposeReturned(c)]
    /\ IF Disposed
       THEN /\ warned' = [warned EXCEPT ![c] = TRUE]
            /\ dpc' = [dpc EXCEPT ![c] = "done"]
       ELSE /\ dpc' = [dpc EXCEPT ![c] = "lock"]
            /\ UNCHANGED warned
    /\ UNCHANGED <<dlog, sdkVars, hctx, ctxVars, runVars, disposed, mu, cancelCalls,
                   releaseCalls, tornBy, wg, envVars, cancelPending, selVars>>

\* dispose(), lines 190-194: take the write lock and set the flag.
DisposeLock(c) ==
    /\ dpc[c] = "lock"
    /\ mu = {}
    /\ mu' = {c}
    /\ disposed' = TRUE
    /\ tornBy' = [tornBy EXCEPT ![c] = TRUE]
    /\ dlog' = [dlog EXCEPT ![c] = Append(@, [step |-> "flag", err |-> Nil])]
    /\ dpc' = [dpc EXCEPT ![c] = IF hctx # "nil" THEN "cancel" ELSE "unlock"]
    /\ UNCHANGED <<sdkVars, hctx, ctxVars, runVars, cancelCalls, releaseCalls, lateCall,
                   wg, envVars, cancelPending, selVars, warned>>

\* A mutant of AfterCancel: a failed Cancel ends the teardown.
AfterCancelFailFast(e) == IF e # Nil THEN "unlock" ELSE "release"

\* Lines 195-199: a failed Cancel is logged; the Release follows either way.
AfterCancel(e) == "release"

\* dispose(), lines 195-198: cancel the pending native call; an error is logged.
DisposeCancel(c) ==
    /\ dpc[c] = "cancel"
    /\ cancelCalls' = cancelCalls + 1
    /\ cancelPending' = IF CancelResult(hctx) = Nil THEN runPc = "waiting" ELSE cancelPending
    /\ dlog' = [dlog EXCEPT ![c] = Append(@, [step |-> "cancel", err |-> CancelResult(hctx)])]
    /\ dpc' = [dpc EXCEPT ![c] = AfterCancel(CancelResult(hctx))]
    /\ UNCHANGED <<sdkVars, hctx, ctxVars, runVars, disposed, mu, releaseCalls, lateCall,
                   tornBy, wg, envVars, selVars, warned>>

\* A mutant of DisposeRelease: the session is not released.
DisposeReleaseSkipped(c) ==
    /\ dpc[c] = "release"
    /\ mu = {c}
    /\ mu' = {}
    /\ dpc' = [dpc EXCEPT ![c] = "done"]
    /\ UNCHANGED <<dlog, sdkVars, hctx, ctxVars, runVars, disposed, cancelCalls, releaseCalls,
                   lateCall, tornBy, wg, envVars, cancelPending, selVars, warned>>

\* dispose(), lines 199-206: release the session (an error is logged), then
\* the deferred unlock; dispose() returns.
DisposeRelease(c) ==
    /\ dpc[c] = "release"
    /\ mu = {c}
    /\ releaseCalls' = releaseCalls + 1
    /\ dlog' = [dlog EXCEPT ![c] = Append(@, [step |-> "release", err |-> ReleaseResult(hctx)])]
    /\ hctx' = IF ReleaseResult(hctx) = Nil THEN "released" ELSE hctx
    /\ mu' = {}
    /\ dpc' = [dpc EXCEPT ![c] = "done"]
    /\ UNCHANGED <<sdkVars, ctxVars, runVars, disposed, cancelCalls, lateCall, tornBy,
                   wg, envVars, cancelPending, selVars, warned>>

\* dispose(), lines 191, 194, 205-206: with no session there is nothing to
\* cancel or release; the deferred unlock, and dispose() returns.
DisposeUnlock(c) ==
    /\ dpc[c] = "unlock"
    /\ mu = {c}
    /\ mu' = {}
    /\ dpc' = [dpc EXCEPT ![c] = "done"]
    /\ UNCHANGED <<dlog, sdkVars, hctx, ctxVars, runVars, disposed, cancelCalls, releaseCalls,
                   lateCall, tornBy, wg, envVars, cancelPending, selVars, warned>>

\* ------------------------------------------------- the cleanup goroutine
\* The goroutine the constructor starts (s.wg counts it) blocks on
\* s.ctx.Done() and then calls dispose(): see DisposeCheck.
\* dispose() has returned in the goroutine: s.wg.Done().
CleanupDone ==
    /\ dpc[Cleanup] = "done"
    /\ wg' = 0
    /\ dpc' = [dpc EXCEPT ![Cleanup] = "exited"]
    /\ UNCHANGED <<dlog, sdkVars, hctx, ctxVars, runVars, disposed, mu, cancelCalls,
                   releaseCalls, lateCall, tornBy, envVars, cancelPending, selVars,
                   warned>>

\* ----------------------------------------------------------- environment
ErrCanceled == <<"context canceled">>

\* The application cancels the context the SDK was created with.
CancelContext ==
    /\ inited
    /\ ~ctxDone
    /\ Cancelled(ErrCanceled)
    /\ UNCHANGED <<sdkVars, hctx, stopArgs, runVars, dispVars, envVars, cancelPending,
                   selVars, warned>>

\* The resource manager invalidates the session (its service restarts).
Invalidate ==
    /\ hctx = "valid"
    /\ hctx' = "invalid"
    /\ UNCHANGED <<sdkVars, ctxVars, runVars, dispVars, envVars, cancelPending, selVars,
                   warned>>

\* A card is put on, or taken off, one of the tracked readers.  The program
\* sees the readers only through GetStatusChange, so the change is taken at
\* the moment the pending call can report it.
ToggleCard(r) ==
    /\ runPc = "waiting"
    /\ \E k \in 1..Len(states) : states[k].Reader = r
    /\ card' = [card EXCEPT ![r] = ~card[r]]
    /\ UNCHANGED <<sdkVars, hctx, ctxVars, runVars, dispVars, cancelPending, selVars,
                   warned>>

\* ------------------------------------------------------- specifications
RunStep ==
    \/ RunPreCheck
    \/ RunStop
    \/ RunSelect
    \/ RunBuildStates
    \/ RunLoopTop
    \/ RunGetStatusChange
    \/ WaitReturnChange
    \/ WaitReturnError
    \/ RunIter
    \/ handleCardConnect
    \/ handleCardDisconnect
    \/ RunWgWait

DisposeStep(c) ==
    \/ DisposeLock(c)
    \/ DisposeCancel(c)
    \/ DisposeRelease(c)
    \/ DisposeUnlock(c)

CleanupStep ==
    \/ DisposeCheck(Cleanup)
    \/ CleanupDone

Next ==
    \/ init
    \/ \E fn \in Selectors \cup {NoSelector} : SelectReader(fn)
    \/ RunStep
    \/ \E c \in DisposeCallers : DisposeCheck(c)
    \/ \E c \in DisposeCallers : DisposeStep(c)
    \/ CleanupDone
    \/ CancelContext
    \/ Invalidate
    \/ \E k \in 1..MaxReaders : ToggleCard(ReaderNames[k])

Spec == Init /\ [][Next]_vars

\* The Go scheduler runs every goroutine that can take a step: Run, the
\* cleanup goroutine, and a dispose() call once it has begun.  What the
\* application and the resource manager do is not forced.
FairSpec ==
    /\ Spec
    /\ WF_vars(RunStep)
    /\ WF_vars(CleanupStep)
    /\ \A c \in DisposeCallers : WF_vars(DisposeStep(c))

\* ================================================================ claims
RunReturned == runPc = "returned"
CleanupExited == dpc[Cleanup] = "exited"

\* The errors of a sequence of error values, in order.
RECURSIVE Flatten(_)
Flatten(es) == IF es = <<>> THEN <<>> ELSE es[1] \o Flatten(Tail(es))

\* Run left the event loop with a fatal error (the states are built only on
\* the way into the loop).
LoopFatal == runPc \in {"wgWait", "returned"} /\ fatal # <<>> /\ states # <<>>

\* C1: whenever Run() has returned, on any path, disposal has completed: the
\* cleanup goroutine has finished, the disposal flag is set, Cancel and
\* Release have been called on the session, and no valid session is left.
C1_ReturnAfterDisposal ==
    RunReturned =>
        /\ CleanupExited
        /\ disposed
        /\ cancelCalls >= 1
        /\ releaseCalls >= 1
        /\ hctx # "valid"

\* C1 witness: Run has returned after a clean cancellation, the session released.
C1_Witness == RunReturned /\ sawDone /\ hctx = "released"

\* The state part of C3: the flag is set exactly when some dispose() call has
\* set it, it is set once a call has returned, and a call that begins after
\* another has returned logs the warning and runs no teardown.
C3_State ==
    /\ disposed <=> \E c \in DisposeCallers : tornBy[c]
    /\ (\E c \in DisposeCallers : dpc[c] \in {"done", "exited"}) => disposed
    /\ \A c \in DisposeCallers :
        /\ lateCall[c] => ~tornBy[c] /\ dpc[c] \notin {"lock", "cancel", "release", "unlock"}
        /\ lateCall[c] /\ dpc[c] \in {"done", "exited"} => warned[c]
        /\ warned[c] => ~tornBy[c]

\* C3: Disposed() is false until a dispose() call sets the flag, true once a
\* dispose() call has returned, and never false again; a dispose() call that
\* begins after another has returned logs the warning and runs no teardown.
C3_DisposeIdempotent == [](C3_State) /\ [][disposed => disposed']_vars

\* C3 witness: a second dispose() call, begun after a completed one, has
\* returned with the warning.
C3_Witness ==
    \E c \in DisposeCallers :
        lateCall[c] /\ warned[c] /\ dpc[c] = "done" /\ cancelCalls = 1 /\ releaseCalls = 1

\* C2: once the context is cancelled while Run is blocked in GetStatusChange,
\* Run eventually returns; and Run never returns before the cleanup
\* goroutine (the scheduled disposal) has finished.
C2_CancelWhileWaiting ==
    /\ (runPc = "waiting" /\ ctxDone) ~> RunReturned
    /\ [](RunReturned => CleanupExited)

\* C2 witness: Run returned after the application cancelled the context and
\* the dispose() of the cleanup goroutine cancelled the pending wait.
C2_Witness ==
    /\ RunReturned
    /\ cause = ErrCanceled
    /\ err = ErrCancelled
    /\ tornBy[Cleanup]
    /\ dpc["direct"] = "idle"
    /\ CleanupExited

\* C4 (as claimed): once Run waits for the cleanup with a fatal error
\* recorded, s.stop has been called with that error.
C4_FatalSignalled ==
    (runPc \in {"wgWait", "returned"} /\ fatal # <<>>) => stopArgs = <<err>>

\* C5 (as claimed): after a fatal error in the loop Run eventually returns that
\* error, the session released.
C5_LoopErrorReturns ==
    (LoopFatal /\ runPc = "wgWait") ~> (RunReturned /\ err # Nil /\ releaseCalls >= 1)

\* C6: Run returns nil exactly when it left the loop through the cancelled
\* context, which happens only with no fatal error recorded; otherwise it
\* returns the fatal errors recorded, joined in order (both set-up checks
\* failing gives the join of the session error and "no readers present").
C6_ReturnValue ==
    RunReturned =>
        /\ (err = Nil) <=> sawDone
        /\ sawDone => fatal = <<>>
        /\ ~sawDone => fatal # <<>> /\ err = Flatten(fatal)
        /\ Len(fatal) <= 2
        /\ Len(fatal) = 2 => err = <<ErrInvalid[1], ErrNoReadersPresent[1]>>

\* C6 witness: Run returned the join of both set-up errors.
C6_Witness == RunReturned /\ Len(err) = 2

\* Run failed its first check: the session was invalid at the start.
StartInvalid == fatal # <<>> /\ fatal[1] = ErrInvalid /\ appliedSelect = "none"

\* C7: with the session invalid at the start of Run, no selection step and no
\* GetStatusChange call is made; Run returns the session error (first in the
\* join when the inventory is empty too), and only with disposal done.
C7_InvalidAtStart ==
    StartInvalid =>
        /\ runPc \in {"preFail", "wgWait", "returned"}
        /\ ~waitIssued
        /\ states = <<>>
        /\ SubSeq(err, 1, 1) = ErrInvalid
        /\ RunReturned => disposed /\ CleanupExited /\ stopArgs = <<err>>

\* C7 witness: such a Run has returned the session error alone.
C7_Witness == StartInvalid /\ RunReturned /\ err = ErrInvalid

\* init() found no reader.
InitNoReaders == inited /\ initErr = ErrNoReadersListed

\* C8 (as claimed): after init() failed for want of readers, Run returns the
\* very error init() returned.
C8_SameInitError == (InitNoReaders /\ RunReturned) => err = initErr

\* C8 (amended): after init() failed for want of readers the inventory is
\* empty and Run never selects or waits; it returns its own "no readers
\* present" error, joined after the session error when the session is
\* invalid too, which wraps the sentinel Error as init()'s error does.
C8_NoReadersError ==
    InitNoReaders =>
        /\ readers = <<>>
        /\ IsSDKError(initErr)
        /\ runPc \in {"idle", "preFail", "wgWait", "returned"}
        /\ appliedSelect = "none"
        /\ ~waitIssued
        /\ RunReturned =>
            /\ err \in {ErrNoReadersPresent, Join(ErrInvalid, ErrNoReadersPresent)}
            /\ IsSDKError(err)
            /\ err # initErr

\* C8 witness: Run has returned after such an init().
C8_Witness == InitNoReaders /\ RunReturned /\ err = ErrNoReadersPresent

\* The selection step has been done, without error, and left no reader enabled.
NoneEnabled ==
    /\ appliedSelect # "none"
    /\ runPc \notin {"selectFail", "build"}
    /\ ErrSelect \notin {fatal[k] : k \in 1..Len(fatal)}
    /\ \A k \in 1..Len(readers) : ~readers[k].Use

InLoop ==
    runPc \in {"loopTop", "callWait", "waiting", "iter", "connect", "disconnect"}

\* C9: the loop runs, and GetStatusChange is called, only with at least one
\* reader tracked, each tracked reader being one with Use set; when the
\* selection leaves no reader enabled Run fails with "no readers enabled",
\* signalled through s.stop, and no GetStatusChange call is made.
C9_NeverLoopWithoutReaders ==
    /\ (InLoop \/ waitIssued) =>
        /\ states # <<>>
        /\ \A i \in 1..Len(states) :
            \E k \in 1..Len(readers) : readers[k].Use /\ readers[k].name = states[i].Reader
    /\ NoneEnabled =>
        /\ runPc \in {"wgWait", "returned"}
        /\ err = ErrNoReadersEnabled
        /\ stopArgs = <<ErrNoReadersEnabled>>
        /\ ~waitIssued
        /\ states = <<>>

\* C9 witness: a callback returned an empty subset and Run has returned.
C9_Witness == NoneEnabled /\ appliedSelect = "empty" /\ RunReturned

\* The state part of C10: the attached callback is the first one passed, the
\* warning is logged only with a callback attached, and a callback Run
\* applies is that first one.
C10_State ==
    /\ readerSelect = firstSelect
    /\ selWarned => readerSelect # NoSelector
    /\ appliedSelect \notin {"none", NoSelector} => appliedSelect = firstSelect

\* C10: a callback once attached is never replaced; a SelectReader call that
\* finds one attached logs the warning; the attached callback is the first
\* one passed, and it is the one Run applies when it applies a callback.
C10_SelectOnce ==
    /\ [](C10_State)
    /\ [][readerSelect # NoSelector => readerSelect' = readerSelect]_vars
    /\ [][(readerSelect # NoSelector /\ firstSelect' # firstSelect) => FALSE]_vars

\* C10 witness: a second registration was refused with the warning and Run
\* applied the first callback.
C10_Witness == selWarned /\ appliedSelect = "usePair" /\ runPc = "waiting"

\* Run applied the default policy: its selection step found no callback.
DefaultApplied == appliedSelect = NoSelector

\* C11: with no callback registered and a non-empty inventory, the selection
\* step leaves exactly the first discovered reader with Use set and every
\* other reader with Use unset, and the loop tracks the first reader only.
C11_DefaultFirstReader ==
    DefaultApplied =>
        /\ readers # <<>>
        /\ readers[1].Use
        /\ readers[1].id = 1
        /\ \A k \in 2..Len(readers) : ~readers[k].Use
        /\ runPc # "build" =>
            /\ Len(states) = 1
            /\ states[1].Reader = readers[1].name
            /\ states[1].Reader = ReaderNames[1]

\* C11 witness: two readers discovered, the default applied, Run waits on
\* the first reader alone.
C11_Witness ==
    /\ DefaultApplied
    /\ Len(readers) = 2
    /\ runPc = "waiting"
    /\ Len(states) = 1

\* The callback Run applied returned an error.
SelectFailed == appliedSelect = "fail"

\* The state part of C12: from the failed selection on, Run holds the
\* callback's error, has built no states and issued no GetStatusChange; once
\* past s.stop it has signalled that error; it returns only after disposal.
C12_State ==
    SelectFailed =>
        /\ runPc \in {"selectFail", "wgWait", "returned"}
        /\ err = ErrSelect
        /\ fatal = <<ErrSelect>>
        /\ states = <<>>
        /\ ~waitIssued
        /\ runPc # "selectFail" => ctxDone /\ stopArgs = <<ErrSelect>>
        /\ RunReturned => CleanupExited /\ disposed

\* C12: when the registered callback returns an error, Run aborts with
\* exactly that error: it calls s.stop with it, waits for the cleanup and
\* returns it, having built no reader states and issued no GetStatusChange.
C12_SelectorErrorAborts == [](C12_State) /\ (SelectFailed ~> RunReturned)

\* C12 witness: Run has returned the callback's error.
C12_Witness == SelectFailed /\ RunReturned /\ err = ErrSelect /\ cause = ErrSelect

\* Run issues the GetStatusChange call of line 105 in this step.
IssuesWait == runPc = "callWait" /\ runPc' # "callWait"

\* handleCard issues the Connect call of line 209 in this step.
IssuesConnect == runPc = "connect" /\ runPc' # "connect"

\* The state part of C13: a check that reported valid stands exactly between
\* the check and the call it guards; after a check that reported invalid the
\* loop is left, no card is connected and err is the error of the check.
C13_State ==
    /\ lastCheck = Nil <=> runPc \in {"callWait", "connect"}
    /\ lastCheck \notin {Nil, NotChecked} =>
        /\ lastCheck = ErrInvalid
        /\ runPc \in {"wgWait", "returned"}
        /\ ~connected
        /\ err = lastCheck
        /\ fatal = <<lastCheck>>

\* C13: every GetStatusChange call and every Connect call Run issues comes
\* straight after an IsValid that reported valid; when IsValid reports invalid
\* (before the wait, or before a present card is handled) the call it guards
\* is not issued, the loop is left, and the value Run returns is that error.
C13_ValidatedBeforeCall ==
    /\ [](C13_State)
    /\ [][(IssuesWait \/ IssuesConnect) => lastCheck = Nil /\ lastCheck' = NotChecked]_vars
    /\ [][(lastCheck' \notin {Nil, NotChecked} /\ lastCheck' # lastCheck) =>
              /\ runPc \in {"loopTop", "iter"}
              /\ runPc' = "wgWait"
              /\ waitIssued' = waitIssued
              /\ connected' = connected]_vars
    /\ [][lastCheck \notin {Nil, NotChecked} => lastCheck' = lastCheck /\ err' = err]_vars

\* C13 witness: the revalidation before a present card is handled failed, no
\* Connect was issued, and Run has returned the error.
C13_Witness ==
    /\ lastCheck = ErrInvalid
    /\ RunReturned
    /\ err = ErrInvalid
    /\ \E k \in 1..Len(states) :
        /\ k = idx
        /\ states[k].CurrentState \cap ScardStatePresent # {}

\* The positions in the calls of the current pass of the calls op on reader r.
CallsOf(r, op) == {n \in 1..Len(calls) : calls[n].reader = r /\ calls[n].op = op}

\* The calls of the current pass made for the k-th tracked reader are a
\* Connect, followed by a Disconnect exactly when the Connect succeeded.
HandledOnce(k) ==
    LET r == states[k].Reader
    IN /\ Cardinality(CallsOf(r, "connect")) = 1
       /\ \A n \in CallsOf(r, "connect") :
            IF calls[n].err = Nil
            THEN CallsOf(r, "disconnect") = {n + 1}
            ELSE CallsOf(r, "disconnect") = {}

\* The state part of C14: a pass over the states makes at most one Connect
\* and one Disconnect per tracked reader, a Disconnect only straight after
\* the successful Connect to the same reader; when the pass is over, before
\* the next GetStatusChange, each reader reported present has been handled
\* once and no other reader has been handled.
C14_State ==
    /\ \A n \in 1..Len(calls) :
        /\ \E k \in 1..Len(states) :
            /\ states[k].Reader = calls[n].reader
            /\ ScardStatePresent \subseteq states[k].EventState
        /\ Cardinality(CallsOf(calls[n].reader, calls[n].op)) = 1
        /\ calls[n].op = "disconnect" =>
            /\ n > 1
            /\ calls[n - 1] = [reader |-> calls[n].reader, op |-> "connect", err |-> Nil]
    /\ runPc = "loopTop" =>
        \A k \in 1..Len(states) :
            IF ScardStatePresent \subseteq states[k].EventState
            THEN HandledOnce(k)
            ELSE CallsOf(states[k].Reader, "connect") = {} /\
                 CallsOf(states[k].Reader, "disconnect") = {}
    /\ runPc \in {"callWait", "waiting"} => calls = <<>>

\* C14: for each return of GetStatusChange and each tracked reader whose
\* EventState has the present bit, handleCard makes exactly one Connect to
\* that reader, followed by exactly one Disconnect if and only if the Connect
\* succeeded, all of it before the next GetStatusChange call is issued.
C14_HandledOncePerEvent ==
    /\ [](C14_State)
    /\ [][IssuesWait => calls = <<>>]_vars
    /\ [][(runPc = "iter" /\ runPc' = "loopTop") => calls' = calls]_vars

\* C14 witness: in one pass a Connect to the first reader failed, the card of
\* the second reader was connected and disconnected, and the pass is over.
C14_Witness ==
    /\ runPc = "loopTop"
    /\ Len(calls) = 3
    /\ calls[1].err # Nil
    /\ calls[2].err = Nil
    /\ calls[3].op = "disconnect"

\* The last call handleCard made failed.
PerCardFailed == calls # <<>> /\ calls[Len(calls)].err # Nil

\* handleCard makes a call in this step, and the call fails.
PerCardFails == Len(calls') = Len(calls) + 1 /\ calls'[Len(calls')].err # Nil

\* The errors joined in the error values of the sequence es.
ErrorsIn(es) == {Flatten(es)[n] : n \in 1..Len(Flatten(es))}

\* C15: a failed Connect or Disconnect in handleCard never ends the loop and
\* never becomes, or is joined into, the value Run returns: the step leaves
\* err and the cancellation alone and goes on to the next tracked reader,
\* and, unless the context is cancelled or the session stops being valid,
\* Run comes to the next GetStatusChange call.
C15_PerCardErrorsNotFatal ==
    /\ [](ErrorsIn(<<err>> \o fatal \o stopArgs) \cap {ErrConnect[1], ErrDisconnect[1]} = {})
    /\ [][PerCardFails =>
              /\ runPc' = "iter"
              /\ idx' = idx + 1
              /\ err' = err
              /\ fatal' = fatal
              /\ ctxDone' = ctxDone
              /\ stopArgs' = stopArgs]_vars
    /\ (PerCardFailed ~> (runPc = "callWait" \/ ctxDone \/ hctx # "valid"))

\* C15 witness: a Disconnect failed on the first reader and a Connect failed
\* on the second; the pass is over with no error recorded, the session valid.
C15_Witness ==
    /\ runPc = "loopTop"
    /\ Len(calls) = 3
    /\ calls[2].err = ErrDisconnect
    /\ calls[3].err = ErrConnect
    /\ err = Nil
    /\ fatal = <<>>
    /\ hctx = "valid"
    /\ ~ctxDone

\* The names of the teardown steps the dispose() call of c has made, in order.
StepsOf(c) == [n \in 1..Len(dlog[c]) |-> dlog[c][n].step]

\* The dispose() call of c has returned.
DisposeReturned(c) == dpc[c] \in {"done", "exited"}

\* The state part of C16, for a dispose() call that found the flag unset on
\* an established session: the steps made are a prefix of flag, Cancel,
\* Release; the flag is set from the first step on; the call returns only
\* with all three made, whatever Cancel and Release returned.
C16_State ==
    \A c \in DisposeCallers :
        /\ tornBy[c] <=> dlog[c] # <<>>
        /\ (tornBy[c] /\ hctx # "nil") =>
            /\ disposed
            /\ StepsOf(c) = SubSeq(<<"flag", "cancel", "release">>, 1, Len(dlog[c]))
            /\ DisposeReturned(c) <=> Len(dlog[c]) = 3
            /\ dpc[c] = "cancel" <=> Len(dlog[c]) = 1
            /\ dpc[c] = "release" <=> Len(dlog[c]) = 2
        /\ (tornBy[c] /\ hctx = "nil") => disposed /\ StepsOf(c) = <<"flag">>

\* C16: a dispose() call that finds the flag unset on an established session
\* sets the flag, then calls Cancel, then Release, in that order; a failed
\* Cancel does not keep Release from being attempted: Release is attempted
\* exactly once whether Cancel succeeded or failed, and the flag is set
\* whatever the two calls return.
C16_TeardownOrder ==
    /\ [](C16_State)
    /\ [][\A c \in DisposeCallers :
              dlog'[c] # dlog[c] => SubSeq(dlog'[c], 1, Len(dlog[c])) = dlog[c]
                                    /\ Len(dlog'[c]) = Len(dlog[c]) + 1]_vars

\* C16 witness: a dispose() call has returned whose Cancel failed and whose
\* Release was attempted all the same.
C16_Witness ==
    \E c \in DisposeCallers :
        /\ DisposeReturned(c)
        /\ Len(dlog[c]) = 3
        /\ dlog[c][2].err # Nil
        /\ dlog[c][3].step = "release"
        /\ disposed
        /\ \A d \in DisposeCallers \ {c} : ~tornBy[d]

\* Run is at a GetStatusChange call: about to issue it, or blocked in it.
AtWait == runPc \in {"callWait", "waiting"}

\* C17: at the first GetStatusChange call the CurrentState of every tracked
\* reader is unaware, and at every later call it is the EventState the
\* previous call reported for that reader (EventState is written by the
\* return of GetStatusChange only, and the set of tracked readers is fixed).
C17_StateTracking ==
    /\ [](AtWait =>
            \A k \in 1..Len(states) : states[k].CurrentState = states[k].EventState)
    /\ []((runPc = "callWait" /\ ~waitIssued) =>
            \A k \in 1..Len(states) : states[k].CurrentState = ScardStateUnaware)
    /\ [][(\E k \in 1..Len(states) : states'[k].EventState # states[k].EventState) =>
              /\ runPc = "waiting"
              /\ states' = [k \in 1..Len(states) |-> Report(states[k])]]_vars
    /\ [][states # <<>> =>
              [k \in 1..Len(states') |-> states'[k].Reader] =
              [k \in 1..Len(states) |-> states[k].Reader]]_vars

\* C17 witness: two readers tracked; the previous call reported a card put on
\* the first and nothing new on the second, and Run is at the next call with
\* exactly those states as CurrentState.
C17_Witness ==
    /\ runPc = "callWait"
    /\ waitIssued
    /\ Len(states) = 2
    /\ states[1].CurrentState = ScardStatePresent \cup ScardStateChanged
    /\ states[2].CurrentState = ScardStateEmpty
    /\ states[1].EventState = states[1].CurrentState
    /\ states[2].EventState = states[2].CurrentState

\* The dispose() calls that set the flag and ran the teardown.
TornDown == {c \in DisposeCallers : tornBy[c]}

\* C18 (as claimed): whatever the overlap of the dispose() calls on an
\* established session, Cancel and Release are each called at most once on
\* the session and at most one of the calls runs the teardown.
C18_TeardownOnce ==
    hctx # "nil" =>
        /\ cancelCalls <= 1
        /\ releaseCalls <= 1
        /\ Cardinality(TornDown) <= 1

\* C19 (as claimed): Run issues no GetStatusChange and no Connect call on a
\* session dispose() has released: no Release comes between a validity check
\* that reported valid and the call it guards.
C19_NoCallOnReleased ==
    [][(IssuesWait \/ IssuesConnect) => hctx # "released"]_vars

\* C20 (as claimed): handleCard runs for a tracked reader only in a pass in
\* which GetStatusChange reported a change of that reader itself.
C20_HandledOnlyOnOwnChange ==
    runPc \in {"connect", "disconnect"} =>
        ScardStateChanged \subseteq states[idx].EventState

====
